---------------------------- MODULE Spec2Model ----------------------------
(***************************************************************************)
(* Library Management & Fine Calculation System (library_management.py).   *)
(*                                                                         *)
(* The state is the three in-memory dictionaries books, members, issues,   *)
(* and the counter next_issue_id.  Each menu operation that changes state  *)
(* is one action, and so is the reminder report; what an operation prints  *)
(* is recorded in `last`.  What datetime.today() returns and what is typed *)
(* at a prompt are inputs of the actions.  The free-text fields            *)
(* title, author, category, name and phone are only stored and printed,    *)
(* no operation on the counters, fines or records reads them, and they are *)
(* not part of the records here.                                           *)
(***************************************************************************)
EXTENDS Integers, Sequences, FiniteSets, TLC

VARIABLES books, members, issues, next_issue_id, last

vars == <<books, members, issues, next_issue_id, last>>

(* ----------------- configuration constants ----------------- *)
FINE_PER_DAY == 5

MAX_FINE_LIMIT == 500

ISSUE_DAYS == 14

\* show_due_and_overdue_reminders, line 393: days before the due date from
\* which a book is "due soon"
DUE_SOON_DAYS == 2

(* ----------------- bounds of the model ----------------- *)
\* issue_book succeeds only while next_issue_id <= MaxIssues
MaxIssues == 2

\* largest number of copies typed at "Enter Total Copies" / "Total copies"
MaxCopies == 2

\* resolution of the clock: instants per calendar day
TicksPerDay == 2

BookIds == {"B1", "B2"}

MemberIds == {"M1", "M2"}

(* ----------------- dates ----------------- *)
\* Optional[datetime]: << >> is None, <<t>> is the datetime t
None == << >>

Some(t) == <<t>>

\* datetime.date(): the calendar day an instant falls on
DateOf(t) == t \div TicksPerDay

\* timedelta(days = n)
timedelta(n) == n * TicksPerDay

\* the late days of a return whose fine is the fine limit
LimitDays == MAX_FINE_LIMIT \div FINE_PER_DAY

\* datetime.today() is the wall clock: a reading may be earlier than the
\* one before it.
\* the instant at which issue_book reads datetime.today(): later in day 0
IssueInstants == { 1 }

\* the instants at which return_book reads datetime.today(): later in day 0,
\* and the start of the day on which an issue of day 0 is late by LimitDays
\* days
ReturnInstants == { 1, timedelta(ISSUE_DAYS + LimitDays) }

\* the instants at which show_due_and_overdue_reminders reads
\* datetime.today(): later in day 0, later in the first day on which an
\* issue of day 0 is due soon, and the start of the day on which it is late
\* by LimitDays days
ReminderInstants ==
    { 1, timedelta(ISSUE_DAYS - DUE_SOON_DAYS) + 1,
      timedelta(ISSUE_DAYS + LimitDays) }

(* ----------------- typed input ----------------- *)
\* A typed line is a sequence of characters, each one its Unicode code point.
\* ord(c) for the ASCII characters written below
ord(c) == CASE c = " " -> 32
            [] c = "+" -> 43
            [] c = "-" -> 45
            [] c = "0" -> 48
            [] c = "_" -> 95
            [] c = "x" -> 120

\* The decimal digits (str.isdecimal) come in 66 runs of ten, ZERO to NINE
\* of one script each; these are the ZEROs: DIGIT ZERO, ARABIC-INDIC DIGIT
\* ZERO, EXTENDED ARABIC-INDIC DIGIT ZERO, NKO DIGIT ZERO, DEVANAGARI DIGIT
\* ZERO, ...
DecimalZeros ==
    {48, 1632, 1776, 1984, 2406, 2534, 2662, 2790, 2918, 3046, 3174, 3302,
     3430, 3558, 3664, 3792, 3872, 4160, 4240, 6112, 6160, 6470, 6608, 6784,
     6800, 6992, 7088, 7232, 7248, 42528, 43216, 43264, 43472, 43504, 43600,
     44016, 65296, 66720, 68912, 69734, 69872, 69942, 70096, 70384, 70736,
     70864, 71248, 71360, 71472, 71904, 72016, 72784, 73040, 73120, 92768,
     92864, 93008, 120782, 120792, 120802, 120812, 120822, 123200, 123632,
     125264, 130032}

DecimalChars == UNION {z..(z + 9) : z \in DecimalZeros}

\* the digits (str.isdigit) that are no decimal digits: superscripts,
\* subscripts, circled and parenthesized digits, ...
OtherDigitChars ==
    (178..179) \cup {185} \cup (4969..4977) \cup {6618} \cup {8304}
        \cup (8308..8313) \cup (8320..8329) \cup (9312..9320)
        \cup (9332..9340) \cup (9352..9360) \cup {9450} \cup (9461..9469)
        \cup {9471} \cup (10102..10110) \cup (10112..10120)
        \cup (10122..10130) \cup (68160..68163) \cup (69216..69224)
        \cup (69714..69722) \cup (127232..127242)

\* str.isspace: what str.strip() and int() take off
Whitespace ==
    (9..13) \cup (28..32) \cup {133, 160, 5760} \cup (8192..8202)
        \cup {8232, 8233, 8239, 8287, 12288}

\* the value of a decimal digit
DigitVal ==
    [c \in DecimalChars |-> c - (CHOOSE z \in DecimalZeros : c \in z..(z + 9))]

\* str(n)
RECURSIVE ToStr(_)
ToStr(n) == IF n < 10 THEN <<ord("0") + n>>
            ELSE ToStr(n \div 10) \o <<ord("0") + (n % 10)>>

\* str.strip()
RECURSIVE strip(_)
strip(s) ==
    IF s = << >> THEN s
    ELSE IF Head(s) \in Whitespace THEN strip(Tail(s))
    ELSE IF s[Len(s)] \in Whitespace THEN strip(SubSeq(s, 1, Len(s) - 1))
    ELSE s

\* str.isdigit(): non-empty and all characters are digits, decimal or not
isdigit(s) ==
    Len(s) > 0 /\ \A i \in 1..Len(s) : s[i] \in DecimalChars \cup OtherDigitChars

\* the value of decimal digits with underscores between them
RECURSIVE DigitsValue(_)
DigitsValue(s) ==
    IF Len(s) = 0 THEN 0
    ELSE IF s[Len(s)] = ord("_") THEN DigitsValue(SubSeq(s, 1, Len(s) - 1))
    ELSE 10 * DigitsValue(SubSeq(s, 1, Len(s) - 1)) + DigitVal[s[Len(s)]]

\* decimal digits, with single underscores allowed between two of them, and
\* no more digits than int() converts (sys.get_int_max_str_digits(), 4300)
Grouped(s) ==
    /\ Len(s) > 0
    /\ s[1] \in DecimalChars /\ s[Len(s)] \in DecimalChars
    /\ \A i \in 1..Len(s) : s[i] \in DecimalChars \cup {ord("_")}
    /\ \A i \in 1..(Len(s) - 1) : ~(s[i] = ord("_") /\ s[i + 1] = ord("_"))
    /\ Cardinality({i \in 1..Len(s) : s[i] # ord("_")}) <= 4300

\* s without a sign in front
Unsigned(s) ==
    IF s # << >> /\ Head(s) \in {ord("-"), ord("+")} THEN Tail(s) ELSE s

\* int(s) raises ValueError unless s is, between optional whitespace, an
\* optional sign followed by decimal digits with single underscores allowed
\* between them
IsIntStr(s) == Grouped(Unsigned(strip(s)))

int(s) == LET t == strip(s)
          IN  IF Head(t) = ord("-") THEN 0 - DigitsValue(Tail(t))
              ELSE DigitsValue(Unsigned(t))

\* lines typed at "Total copies [..]:" in update_book: nothing, "x", "-1",
\* " 0_1", and the totals
TotalInputs ==
    {<< >>, <<ord("x")>>, <<ord("-"), ord("0") + 1>>,
     <<ord(" "), ord("0"), ord("_"), ord("0") + 1>>}
        \cup {ToStr(n) : n \in 0..MaxCopies}

\* lines typed at "Enter Issue ID:" in return_book: "-1", a digit that int()
\* does not take (SUPERSCRIPT TWO), EM SPACE and DEVANAGARI DIGIT ONE, and
\* the numbers up to an id that is not given
IssueIdInputs ==
    {<<ord("-"), ord("0") + 1>>, <<178>>, <<8195, 2407>>}
        \cup {ToStr(n) : n \in 0..(MaxIssues + 1)}

\* Everything typed at a numeric prompt, with what .strip() and the
\* conversions make of it (tabulated once per input)
TypedInputs == TotalInputs \cup IssueIdInputs

Stripped == [s \in TypedInputs |-> strip(s)]

StrippedInputs == {strip(s) : s \in TypedInputs}

TypedIsDigit == [s \in StrippedInputs |-> isdigit(s)]

TypedIsInt == [s \in StrippedInputs |-> IsIntStr(s)]

TypedInt == [s \in {x \in StrippedInputs : IsIntStr(x)} |-> int(s)]

(* ----------------- dictionaries ----------------- *)
EmptyDict == [k \in {} |-> 0]

\* d[key] = value, inserting the key when it is new
Put(d, key, value) ==
    [k \in DOMAIN d \cup {key} |-> IF k = key THEN value ELSE d[k]]


(* ----------------- data models ----------------- *)
\* Book(total_copies, available_copies)
Book(total, available) ==
    [total_copies |-> total, available_copies |-> available]

\* Member(member_id, name, phone): blocked = False, outstanding_fine = 0,
\* borrowed_books = []
Member(member_id) ==
    [member_id |-> member_id, blocked |-> FALSE, outstanding_fine |-> 0,
     borrowed_books |-> << >>]

\* IssueRecord taking the member id for the book id and the book id for the
\* member id
IssueRecord_swapped(issue_id, book_id, member_id, issue_date, due_date) ==
    [issue_id |-> issue_id, book_id |-> member_id, member_id |-> book_id,
     issue_date |-> issue_date, due_date |-> due_date,
     return_date |-> None, fine_charged |-> 0]

\* IssueRecord(...): return_date = None, fine_charged = 0
IssueRecord(issue_id, book_id, member_id, issue_date, due_date) ==
    [issue_id |-> issue_id, book_id |-> book_id, member_id |-> member_id,
     issue_date |-> issue_date, due_date |-> due_date,
     return_date |-> None, fine_charged |-> 0]

max(a, b) == IF a >= b THEN a ELSE b

\* days_late taking whole days of the elapsed time instead of the difference
\* of the calendar dates
days_late_elapsed(record, on_date) ==
    LET effective_date == IF record.return_date # None
                          THEN record.return_date[1] ELSE on_date
    IN  max(0, (effective_date - record.due_date) \div TicksPerDay)

\* IssueRecord.days_late(on_date)
days_late(record, on_date) ==
    LET effective_date == IF record.return_date # None
                          THEN record.return_date[1] ELSE on_date
        delta_days == DateOf(effective_date) - DateOf(record.due_date)
    IN  max(0, delta_days)

\* list.remove(x): drops the first occurrence of x
RECURSIVE remove(_, _)
remove(list, x) ==
    IF list = << >> THEN << >>
    ELSE IF Head(list) = x THEN Tail(list)
    ELSE <<Head(list)>> \o remove(Tail(list), x)

\* x in list
contains(list, x) == \E i \in 1..Len(list) : list[i] = x

(* ----------------- printed messages ----------------- *)
\* The lines that tell how an operation ended.  Section headers, prompts and
\* the lines that only echo a record or an amount are left out.
BOOK_EXISTS == "Book ID already exists. Use update option instead."

BOOK_ADDED == "Book added successfully."

BOOK_NOT_FOUND == "Book not found."

CANNOT_REDUCE == "Cannot reduce below number of currently issued copies."

INVALID_TOTAL == "Invalid total copies. Keeping old value."

BOOK_UPDATED == "Book updated:"

MEMBER_EXISTS == "Member ID already exists."

MEMBER_REGISTERED == "Member registered successfully."

MEMBER_NOT_FOUND == "Member not found."

MEMBER_BLOCKED == "Member is BLOCKED due to high outstanding fines."

NO_COPIES == "No available copies to issue."

BOOK_ISSUED == "Book issued successfully."

NOT_A_NUMBER == "Issue ID must be a number."

ISSUE_NOT_FOUND == "Issue record not found."

ALREADY_RETURNED == "Book already returned."

RECORD_MISSING == "Book or Member record missing. Cannot proceed safely."

RETURN_RECORDED == "Book return recorded."

NOW_BLOCKED == "Member is now BLOCKED due to high fines."

\* the traceback of an int() that raised in return_book, line 312: nothing
\* catches it and the program ends
VALUE_ERROR == "ValueError: invalid literal for int() with base 10"

\* the operation that ran last and the messages it printed
Ran(op, out) == [op |-> op, out |-> out]

\* main, line 511: the menu loop takes the next choice as long as no
\* operation has raised
running == last.out # <<VALUE_ERROR>>

(* ----------------- helper functions ----------------- *)
\* check_and_update_block_status blocking only above the limit
block_above_limit(member) ==
    IF member.outstanding_fine > MAX_FINE_LIMIT
    THEN [member EXCEPT !.blocked = TRUE]
    ELSE [member EXCEPT !.blocked = FALSE]

\* check_and_update_block_status(member)
check_and_update_block_status(member) ==
    IF member.outstanding_fine >= MAX_FINE_LIMIT
    THEN [member EXCEPT !.blocked = TRUE]
    ELSE [member EXCEPT !.blocked = FALSE]

Init ==
    /\ books = EmptyDict
    /\ members = EmptyDict
    /\ issues = EmptyDict
    /\ next_issue_id = 1
    /\ last = Ran("start", << >>)

(* ----------------- book functions ----------------- *)
\* add_book storing the book under an id that is already there
add_book_overwrite(book_id, total_copies) ==
    /\ running
    /\ books' = Put(books, book_id, Book(total_copies, total_copies))
    /\ last' = Ran("add_book", <<BOOK_ADDED>>)
    /\ UNCHANGED <<members, issues, next_issue_id>>

add_book(book_id, total_copies) ==
    /\ running
    /\ IF book_id \in DOMAIN books
       THEN /\ last' = Ran("add_book", <<BOOK_EXISTS>>)
            /\ UNCHANGED books
       ELSE /\ books' = Put(books, book_id, Book(total_copies, total_copies))
            /\ last' = Ran("add_book", <<BOOK_ADDED>>)
    /\ UNCHANGED <<members, issues, next_issue_id>>

\* below_issued rejecting only a negative total
below_zero(book, new_total) == new_total < 0

\* update_book, line 211: the new total is below the copies now on loan
below_issued(book, new_total) ==
    new_total < (book.total_copies - book.available_copies)

\* set_total leaving available_copies as it was
set_total_only(book, new_total) == [book EXCEPT !.total_copies = new_total]

\* set_total making every copy available
set_total_all_available(book, new_total) ==
    [book EXCEPT !.total_copies = new_total, !.available_copies = new_total]

\* update_book, lines 214-216
set_total(book, new_total) ==
    LET diff == new_total - book.total_copies
    IN  [book EXCEPT !.total_copies = new_total,
                     !.available_copies = @ + diff]

update_book(book_id, total_line) ==
    /\ running
    /\ IF book_id \notin DOMAIN books
       THEN /\ last' = Ran("update_book", <<BOOK_NOT_FOUND>>)
            /\ UNCHANGED books
       ELSE LET book == books[book_id]
                new_total_str == Stripped[total_line] IN
            IF new_total_str = << >>
            THEN /\ last' = Ran("update_book", <<BOOK_UPDATED>>)
                 /\ UNCHANGED books
            ELSE IF ~TypedIsInt[new_total_str]
            THEN /\ last' = Ran("update_book",
                                <<INVALID_TOTAL, BOOK_UPDATED>>)
                 /\ UNCHANGED books
            ELSE LET new_total == TypedInt[new_total_str] IN
            IF below_issued(book, new_total)
            THEN /\ last' = Ran("update_book",
                                <<CANNOT_REDUCE, BOOK_UPDATED>>)
                 /\ UNCHANGED books
            ELSE /\ books' = [books EXCEPT
                                ![book_id] = set_total(book, new_total)]
                 /\ last' = Ran("update_book", <<BOOK_UPDATED>>)
    /\ UNCHANGED <<members, issues, next_issue_id>>

(* ----------------- member functions ----------------- *)
register_member(member_id) ==
    /\ running
    /\ IF member_id \in DOMAIN members
       THEN /\ last' = Ran("register_member", <<MEMBER_EXISTS>>)
            /\ UNCHANGED members
       ELSE /\ members' = Put(members, member_id, Member(member_id))
            /\ last' = Ran("register_member", <<MEMBER_REGISTERED>>)
    /\ UNCHANGED <<books, issues, next_issue_id>>

(* ----------------- issue / return functions ----------------- *)
NO_REFUSAL == "-"

\* issue_refusal looking at the copies before the block
refusal_copies_first(book, member) ==
    IF book.available_copies <= 0 THEN NO_COPIES
    ELSE IF member.blocked THEN MEMBER_BLOCKED
    ELSE NO_REFUSAL

\* issue_refusal refusing only a negative number of copies
refusal_below_zero(book, member) ==
    IF member.blocked THEN MEMBER_BLOCKED
    ELSE IF book.available_copies < 0 THEN NO_COPIES
    ELSE NO_REFUSAL

\* issue_refusal not looking at the block
refusal_ignores_block(book, member) ==
    IF book.available_copies <= 0 THEN NO_COPIES ELSE NO_REFUSAL

\* issue_book, lines 278-283: why the issue is refused, if it is; `member`
\* is the member after check_and_update_block_status
issue_refusal(book, member) ==
    IF member.blocked THEN MEMBER_BLOCKED
    ELSE IF book.available_copies <= 0 THEN NO_COPIES
    ELSE NO_REFUSAL

\* issue_book, line 286
due_date_of(issue_date) == issue_date + timedelta(ISSUE_DAYS)

\* following_id not advancing
same_id(issue_id) == issue_id

\* issue_book, line 296
following_id(issue_id) == issue_id + 1

\* issue_book, line 298
lend_copy(book) == [book EXCEPT !.available_copies = @ - 1]

\* borrow keeping borrowed_books a set
borrow_once(member, book_id) ==
    IF contains(member.borrowed_books, book_id) THEN member
    ELSE [member EXCEPT !.borrowed_books = Append(@, book_id)]

\* issue_book, line 299
borrow(member, book_id) ==
    [member EXCEPT !.borrowed_books = Append(@, book_id)]

\* issue_book taking the issue id before the checks of lines 277-283
issue_book_id_first(book_id, member_id) ==
    /\ running
    /\ IF book_id \notin DOMAIN books
       THEN /\ last' = Ran("issue_book", <<BOOK_NOT_FOUND>>)
            /\ UNCHANGED <<books, members, issues, next_issue_id>>
       ELSE IF member_id \notin DOMAIN members
       THEN /\ last' = Ran("issue_book", <<MEMBER_NOT_FOUND>>)
            /\ UNCHANGED <<books, members, issues, next_issue_id>>
       ELSE LET book == books[book_id]
                member == check_and_update_block_status(members[member_id])
                refusal == issue_refusal(book, member)
            IN  /\ next_issue_id <= MaxIssues
                /\ next_issue_id' = following_id(next_issue_id)
                /\ IF refusal # NO_REFUSAL
                   THEN /\ members' = [members EXCEPT ![member_id] = member]
                        /\ last' = Ran("issue_book", <<refusal>>)
                        /\ UNCHANGED <<books, issues>>
                   ELSE \E issue_date \in IssueInstants :
                        LET record == IssueRecord(next_issue_id, book_id,
                                                  member_id, issue_date,
                                                  due_date_of(issue_date))
                        IN  /\ issues' = Put(issues, next_issue_id, record)
                            /\ books' = [books EXCEPT
                                           ![book_id] = lend_copy(book)]
                            /\ members' = [members EXCEPT
                                             ![member_id] = borrow(member, book_id)]
                            /\ last' = Ran("issue_book", <<BOOK_ISSUED>>)

issue_book(book_id, member_id) ==
    /\ running
    /\ IF book_id \notin DOMAIN books
       THEN /\ last' = Ran("issue_book", <<BOOK_NOT_FOUND>>)
            /\ UNCHANGED <<books, members, issues, next_issue_id>>
       ELSE IF member_id \notin DOMAIN members
       THEN /\ last' = Ran("issue_book", <<MEMBER_NOT_FOUND>>)
            /\ UNCHANGED <<books, members, issues, next_issue_id>>
       ELSE LET book == books[book_id]
                member == check_and_update_block_status(members[member_id])
                refusal == issue_refusal(book, member)
            IN  IF refusal # NO_REFUSAL
                THEN /\ members' = [members EXCEPT ![member_id] = member]
                     /\ last' = Ran("issue_book", <<refusal>>)
                     /\ UNCHANGED <<books, issues, next_issue_id>>
                ELSE \E issue_date \in IssueInstants :
                     LET record == IssueRecord(next_issue_id, book_id, member_id,
                                               issue_date, due_date_of(issue_date))
                     IN  /\ next_issue_id <= MaxIssues
                         /\ issues' = Put(issues, next_issue_id, record)
                         /\ next_issue_id' = following_id(next_issue_id)
                         /\ books' = [books EXCEPT ![book_id] = lend_copy(book)]
                         /\ members' = [members EXCEPT
                                          ![member_id] = borrow(member, book_id)]
                         /\ last' = Ran("issue_book",
                                        <<BOOK_ISSUED>>)

\* is_returned reading the fine as the mark of a returned record
has_fine(record) == record.fine_charged > 0

\* is_returned never stopping a return
never_returned(record) == FALSE

\* return_book, line 318
is_returned(record) == record.return_date # None

\* return_book, line 333
fine_for(late_days) == late_days * FINE_PER_DAY

\* charge putting the new fine in place of the old one
charge_replace(member, fine) ==
    check_and_update_block_status(
        [member EXCEPT !.outstanding_fine = fine])

\* return_book, lines 336-337
charge(member, fine) ==
    check_and_update_block_status(
        [member EXCEPT !.outstanding_fine = @ + fine])

\* give_back leaving borrowed_books as it was
give_back_nothing(member, book_id) == member

\* give_back dropping every occurrence of the book id
give_back_all(member, book_id) ==
    [member EXCEPT !.borrowed_books = SelectSeq(@, LAMBDA x : x # book_id)]

\* return_book, lines 341-342
give_back(member, book_id) ==
    IF contains(member.borrowed_books, book_id)
    THEN [member EXCEPT !.borrowed_books = remove(@, book_id)]
    ELSE member

return_book(issue_id_line) ==
    /\ running
    /\ LET issue_id_str == Stripped[issue_id_line] IN
       IF ~TypedIsDigit[issue_id_str]
       THEN /\ last' = Ran("return_book", <<NOT_A_NUMBER>>)
            /\ UNCHANGED <<books, members, issues>>
       ELSE IF ~TypedIsInt[issue_id_str]
       THEN /\ last' = Ran("return_book", <<VALUE_ERROR>>)
            /\ UNCHANGED <<books, members, issues>>
       ELSE LET issue_id == TypedInt[issue_id_str] IN
            IF issue_id \notin DOMAIN issues
            THEN /\ last' = Ran("return_book", <<ISSUE_NOT_FOUND>>)
                 /\ UNCHANGED <<books, members, issues>>
            ELSE IF is_returned(issues[issue_id])
            THEN /\ last' = Ran("return_book", <<ALREADY_RETURNED>>)
                 /\ UNCHANGED <<books, members, issues>>
            ELSE IF \/ issues[issue_id].book_id \notin DOMAIN books
                    \/ issues[issue_id].member_id \notin DOMAIN members
            THEN /\ last' = Ran("return_book", <<RECORD_MISSING>>)
                 /\ UNCHANGED <<books, members, issues>>
            ELSE \E return_date \in ReturnInstants :
                 LET record == [issues[issue_id] EXCEPT
                                  !.return_date = Some(return_date)]
                     late_days == days_late(record, return_date)
                     fine == fine_for(late_days)
                     member == give_back(
                                 charge(members[record.member_id], fine),
                                 record.book_id)
                 IN  /\ issues' = [issues EXCEPT
                                     ![issue_id] = [record EXCEPT !.fine_charged = fine]]
                     /\ members' = [members EXCEPT ![record.member_id] = member]
                     /\ books' = [books EXCEPT ![record.book_id].available_copies = @ + 1]
                     /\ last' = Ran("return_book",
                                    IF member.blocked
                                    THEN <<RETURN_RECORDED, NOW_BLOCKED>>
                                    ELSE <<RETURN_RECORDED>>)
    /\ UNCHANGED next_issue_id

(* ----------------- reports & reminders ----------------- *)
OVERDUE == "[OVERDUE]"

DUE_SOON == "[DUE SOON]"

NO_REMINDER == "-"

NONE_DUE == "No books are due soon or overdue."

\* reminder_kind taking the window without its last day
reminder_kind_short(days_to_due) ==
    IF days_to_due < 0 THEN OVERDUE
    ELSE IF days_to_due < DUE_SOON_DAYS THEN DUE_SOON
    ELSE NO_REMINDER

\* show_due_and_overdue_reminders, lines 386-393
reminder_kind(days_to_due) ==
    IF days_to_due < 0 THEN OVERDUE
    ELSE IF days_to_due <= DUE_SOON_DAYS THEN DUE_SOON
    ELSE NO_REMINDER

\* show_due_and_overdue_reminders, lines 377-399: what is printed for record r
reminder_of(r, now) ==
    IF r.return_date # None THEN << >>
    ELSE LET days_to_due == DateOf(r.due_date) - DateOf(now)
             kind == reminder_kind(days_to_due)
         IN  IF kind = NO_REMINDER THEN << >>
             ELSE << [kind |-> kind, issue_id |-> r.issue_id,
                      days |-> IF kind = OVERDUE THEN 0 - days_to_due
                               ELSE days_to_due] >>

\* for r in issues.values(): the records in the order they were stored, from
\* the k-th on
RECURSIVE reminders_from(_, _)
reminders_from(k, now) ==
    IF k >= next_issue_id THEN << >>
    ELSE (IF k \in DOMAIN issues THEN reminder_of(issues[k], now) ELSE << >>)
         \o reminders_from(k + 1, now)

\* what show_due_and_overdue_reminders printed, and the instant it read: the
\* reminder lines, or the message that there are none
Reminded(lines, now) ==
    [op |-> "show_due_and_overdue_reminders", now |-> now,
     out |-> IF lines = << >> THEN <<NONE_DUE>> ELSE << >>,
     lines |-> lines]

show_due_and_overdue_reminders ==
    \E now \in ReminderInstants :
        /\ running
        /\ last' = Reminded(reminders_from(1, now), now)
        /\ UNCHANGED <<books, members, issues, next_issue_id>>

(* ----------------- main menu ----------------- *)
Next ==
    \/ \E book_id \in BookIds, total_copies \in 1..MaxCopies :
          add_book(book_id, total_copies)
    \/ \E book_id \in BookIds, total_line \in TotalInputs :
          update_book(book_id, total_line)
    \/ \E member_id \in MemberIds : register_member(member_id)
    \/ \E book_id \in BookIds, member_id \in MemberIds :
          issue_book(book_id, member_id)
    \/ \E issue_id_line \in IssueIdInputs : return_book(issue_id_line)
    \/ show_due_and_overdue_reminders

Spec == Init /\ [][Next]_vars

(* ----------------- properties ----------------- *)
Returned(i) == issues[i].return_date # None

\* the typed issue ids that are numbers, and the number each one is
NumberedIds == {s \in IssueIdInputs : isdigit(strip(s)) /\ IsIntStr(s)}

IdTyped == [s \in NumberedIds |-> int(s)]

\* the typed totals that are integers, and the integer each one is
IntegerTotals == {s \in TotalInputs : IsIntStr(s)}

TotalTyped == [s \in IntegerTotals |-> int(s)]

\* copies of a book that are out on loan according to its counters
Issued(book) == book.total_copies - book.available_copies

\* C1: in every reachable state every book has
\* 0 <= available_copies <= total_copies.
C1_AvailableWithinTotal ==
    \A b \in DOMAIN books :
        /\ 0 <= books[b].available_copies
        /\ books[b].available_copies <= books[b].total_copies

\* a book whose copies are all on loan, right after the issue that took the last
C1_Witness ==
    /\ last = Ran("issue_book", <<BOOK_ISSUED>>)
    /\ \E b \in DOMAIN books :
          books[b].available_copies = 0 /\ books[b].total_copies = MaxCopies

\* C2: blocking law: in every reachable state every member is blocked exactly
\* when its outstanding_fine >= MAX_FINE_LIMIT.
C2_BlockingLaw ==
    \A m \in DOMAIN members :
        members[m].blocked <=> (members[m].outstanding_fine >= MAX_FINE_LIMIT)

\* a return whose fine brings a member exactly to the limit
C2_Witness ==
    /\ last = Ran("return_book", <<RETURN_RECORDED, NOW_BLOCKED>>)
    /\ \E m \in DOMAIN members :
          members[m].blocked /\ members[m].outstanding_fine = MAX_FINE_LIMIT

\* C3: every returned record carries the fine of its return: with d the
\* calendar days from its due date to its return date, fine_charged is 0 when
\* d <= 0 and d * FINE_PER_DAY when d > 0.
C3_FineCharged ==
    \A i \in DOMAIN issues :
        Returned(i) =>
            LET now == issues[i].return_date[1]
                due == issues[i].due_date
                d   == DateOf(now) - DateOf(due)
            IN  /\ d <= 0 => issues[i].fine_charged = 0
                /\ d > 0 => issues[i].fine_charged = d * FINE_PER_DAY

\* a record returned late with its fine, beside a record returned in time
C3_Witness ==
    /\ last.op = "return_book"
    /\ \E i, j \in DOMAIN issues :
          /\ Returned(i) /\ Returned(j)
          /\ DateOf(issues[i].return_date[1]) > DateOf(issues[i].due_date)
          /\ issues[i].fine_charged > 0
          /\ issues[j].return_date[1] <= issues[j].due_date
          /\ issues[j].fine_charged = 0

\* C4: a return of a record that is already returned prints "Book already
\* returned." and changes no book, member or record, nor the next issue id.
C4_ReturnTwice ==
    [][\A s \in NumberedIds :
          ( /\ last'.op = "return_book"
            /\ IdTyped[s] \in DOMAIN issues
            /\ issues[IdTyped[s]].return_date # None
            /\ return_book(s) )
          => /\ last'.out = <<ALREADY_RETURNED>>
             /\ UNCHANGED <<books, members, issues, next_issue_id>>]_vars

\* a second return has been refused
C4_Witness ==
    /\ last = Ran("return_book", <<ALREADY_RETURNED>>)
    /\ \E i \in DOMAIN issues : Returned(i) /\ issues[i].fine_charged = 0

\* C5: an issue to a member whose outstanding_fine >= MAX_FINE_LIMIT, of a
\* book that exists, is refused with the blocked message whatever the book's
\* available copies; no record is created, no issue id is used, and no
\* available_copies and no borrowed_books change.
C5_BlockedMemberRefused ==
    [][\A b \in BookIds, m \in MemberIds :
          ( /\ last'.op = "issue_book"
            /\ b \in DOMAIN books
            /\ m \in DOMAIN members
            /\ members[m].outstanding_fine >= MAX_FINE_LIMIT
            /\ issue_book(b, m) )
          => /\ last'.out = <<MEMBER_BLOCKED>>
             /\ UNCHANGED <<issues, next_issue_id>>
             /\ \A x \in DOMAIN books :
                   books'[x].available_copies = books[x].available_copies
             /\ \A x \in DOMAIN members :
                   members'[x].borrowed_books = members[x].borrowed_books]_vars

\* a blocked member has been refused while no book had a copy available
C5_Witness ==
    /\ last = Ran("issue_book", <<MEMBER_BLOCKED>>)
    /\ \A b \in DOMAIN books : books[b].available_copies = 0

\* C6: an issue to a member that is not blocked, of a book that exists and has
\* available_copies <= 0, prints "No available copies to issue." and changes
\* no book, member or record, nor the next issue id.
C6_NoCopiesRefused ==
    [][\A b \in BookIds, m \in MemberIds :
          ( /\ last'.op = "issue_book"
            /\ b \in DOMAIN books
            /\ m \in DOMAIN members
            /\ ~members[m].blocked
            /\ books[b].available_copies <= 0
            /\ issue_book(b, m) )
          => /\ last'.out = <<NO_COPIES>>
             /\ UNCHANGED <<books, members, issues, next_issue_id>>]_vars

\* an issue has been refused while every book was fully on loan
C6_Witness ==
    /\ last = Ran("issue_book", <<NO_COPIES>>)
    /\ \A b \in DOMAIN books :
          books[b].total_copies >= 1 /\ books[b].available_copies = 0

\* C7: a successful issue of book b to member m adds one record, under the
\* next issue id, with no return_date and fine_charged 0; takes exactly 1 from
\* b's available_copies; appends one b to m's borrowed_books; advances the
\* next issue id by 1; and changes nothing else.
C7_IssueEffect ==
    [][\A b \in BookIds, m \in MemberIds :
          ( last'.out = <<BOOK_ISSUED>> /\ issue_book(b, m) )
          => /\ next_issue_id' = next_issue_id + 1
             /\ next_issue_id \notin DOMAIN issues
             /\ DOMAIN issues' = DOMAIN issues \cup {next_issue_id}
             /\ \A k \in DOMAIN issues : issues'[k] = issues[k]
             /\ issues'[next_issue_id].book_id = b
             /\ issues'[next_issue_id].member_id = m
             /\ issues'[next_issue_id].return_date = None
             /\ issues'[next_issue_id].fine_charged = 0
             /\ books' = [books EXCEPT
                            ![b].available_copies = books[b].available_copies - 1]
             /\ members' = [members EXCEPT
                              ![m].borrowed_books = Append(members[m].borrowed_books, b)]
      ]_vars

\* a member has just been issued a second copy of a book it already holds
C7_Witness ==
    /\ last = Ran("issue_book", <<BOOK_ISSUED>>)
    /\ \E m \in DOMAIN members :
          /\ Len(members[m].borrowed_books) = 2
          /\ members[m].borrowed_books[1] = members[m].borrowed_books[2]

\* C8: no record is ever removed, and a record that has a return_date is
\* never changed again.
C8_ReturnedIsTerminal ==
    [][\A i \in DOMAIN issues :
          /\ i \in DOMAIN issues'
          /\ Returned(i) => issues'[i] = issues[i]]_vars

\* a record was returned, and after that another record was returned
C8_Witness ==
    \E i, j \in DOMAIN issues :
        /\ Returned(i) /\ Returned(j)
        /\ issues[i].return_date[1] < issues[j].return_date[1]

C9_Ids ==
    /\ next_issue_id >= 1
    /\ \A k \in DOMAIN issues :
          /\ issues[k].issue_id = k
          /\ 1 <= k /\ k < next_issue_id
    /\ \A j, k \in DOMAIN issues :
          j # k => issues[j].issue_id # issues[k].issue_id
    /\ issues # EmptyDict => 1 \in DOMAIN issues

C9_Allocation ==
    /\ next_issue_id' >= next_issue_id
    /\ \A k \in DOMAIN issues' \ DOMAIN issues :
          k = next_issue_id /\ next_issue_id' > k
    /\ \A b \in BookIds, m \in MemberIds :
          ( /\ last'.op = "issue_book"
            /\ last'.out # <<BOOK_ISSUED>>
            /\ issue_book(b, m) )
          => UNCHANGED <<issues, next_issue_id>>

\* C9: the stored records have pairwise distinct ids, each equal to the key
\* it is stored under and smaller than the next issue id; the first id is 1;
\* every new record takes the next issue id, which then grows; and an issue
\* that fails uses no id.
C9_IssueIds == []C9_Ids /\ [][C9_Allocation]_vars

\* two ids have been allocated and a later issue has failed
C9_Witness ==
    /\ DOMAIN issues = {1, 2}
    /\ next_issue_id = 3
    /\ last.op = "issue_book" /\ last.out # <<BOOK_ISSUED>>

\* C10: update_book with a new total below the copies now on loan
\* (total_copies - available_copies) prints "Cannot reduce below number of
\* currently issued copies." and leaves the book as it was.
C10_ReductionRejected ==
    [][last'.op = "update_book" =>
        \A b \in DOMAIN books, s \in IntegerTotals :
          ( /\ TotalTyped[s] < books[b].total_copies - books[b].available_copies
            /\ update_book(b, s) )
          => /\ Head(last'.out) = CANNOT_REDUCE
             /\ books'[b] = books[b]]_vars

\* a reduction has been refused while every book had copies on loan
C10_Witness ==
    /\ last = Ran("update_book", <<CANNOT_REDUCE, BOOK_UPDATED>>)
    /\ \A b \in DOMAIN books : Issued(books[b]) >= 1

\* C11: in every reachable state every book has total_copies >= 1.
\* add_book asks for at least one copy (line 144), but update_book takes any
\* integer that is not below the copies on loan (line 211): with nothing on
\* loan it takes 0.
C11_AtLeastOneCopy ==
    \A b \in DOMAIN books : books[b].total_copies >= 1

\* books, members, records and the next issue id
ledger == <<books, members, issues, next_issue_id>>

\* C12: issue_book with a book id or a member id that is not stored prints
\* "Book not found." / "Member not found.", return_book with a number that
\* is no issue id prints "Issue record not found.", and each leaves books,
\* members, records and the next issue id as they were; and whenever
\* issue_book or return_book ends without its success message, books,
\* members, records and the next issue id are all as before.
C12_NoPartialMutation ==
    [][ /\ last'.op = "issue_book" =>
            /\ \A b \in BookIds, m \in MemberIds :
                 ( /\ b \notin DOMAIN books \/ m \notin DOMAIN members
                   /\ issue_book(b, m) )
                 => /\ last'.out = IF b \notin DOMAIN books
                                   THEN <<BOOK_NOT_FOUND>>
                                   ELSE <<MEMBER_NOT_FOUND>>
                    /\ UNCHANGED ledger
            /\ last'.out # <<BOOK_ISSUED>> => UNCHANGED ledger
        /\ last'.op = "return_book" =>
            /\ \A s \in NumberedIds :
                 ( /\ IdTyped[s] \notin DOMAIN issues
                   /\ return_book(s) )
                 => /\ last'.out = <<ISSUE_NOT_FOUND>>
                    /\ UNCHANGED ledger
            /\ Head(last'.out) # RETURN_RECORDED => UNCHANGED ledger
      ]_vars

\* an issue to a member that is not registered has failed while a copy was
\* on loan and a fine was owed
C12_Witness ==
    /\ last = Ran("issue_book", <<MEMBER_NOT_FOUND>>)
    /\ \E i \in DOMAIN issues : ~Returned(i)
    /\ \E m \in DOMAIN members : members[m].outstanding_fine > 0

\* C13: the report of show_due_and_overdue_reminders, read at the instant
\* `last.now`, has exactly one line for every record without return_date whose
\* days to due (calendar day of due_date minus calendar day of the reading)
\* are at most 2, and no other line: the line is [OVERDUE] with the days
\* late, minus the days to due, when the days to due are negative, and
\* [DUE SOON] with the days to due when they are 0, 1 or 2.  A returned
\* record and a record due in more than 2 days have no line, and no record
\* has two lines.
C13_Reminders ==
    last.op = "show_due_and_overdue_reminders" =>
        LET lines == last.lines
            days_to_due(i) == DateOf(issues[i].due_date) - DateOf(last.now)
            lines_of(i) == {k \in 1..Len(lines) : lines[k].issue_id = i}
        IN  /\ \A k \in 1..Len(lines) : lines[k].issue_id \in DOMAIN issues
            /\ \A i \in DOMAIN issues :
                 IF Returned(i) \/ days_to_due(i) > 2
                 THEN lines_of(i) = {}
                 ELSE \E k \in 1..Len(lines) :
                        /\ lines_of(i) = {k}
                        /\ lines[k] =
                             IF days_to_due(i) < 0
                             THEN [kind |-> OVERDUE, issue_id |-> i,
                                   days |-> 0 - days_to_due(i)]
                             ELSE [kind |-> DUE_SOON, issue_id |-> i,
                                   days |-> days_to_due(i)]

\* a report with a record due in exactly 2 days, beside a returned record
C13_Witness ==
    /\ last.op = "show_due_and_overdue_reminders"
    /\ \E k \in 1..Len(last.lines) :
         last.lines[k].kind = DUE_SOON /\ last.lines[k].days = 2
    /\ \E i \in DOMAIN issues : Returned(i)

\* a report with a record late by LimitDays days
C13_OverdueReported ==
    /\ last.op = "show_due_and_overdue_reminders"
    /\ \E k \in 1..Len(last.lines) :
         last.lines[k].kind = OVERDUE /\ last.lines[k].days = LimitDays

\* a report without a line for a record that is due in more than 2 days
C13_NotYetDue ==
    /\ last.op = "show_due_and_overdue_reminders"
    /\ last.out = <<NONE_DUE>>
    /\ \E i \in DOMAIN issues :
         ~Returned(i) /\ DateOf(issues[i].due_date) - DateOf(last.now) > 2

\* C14: add_book with a book id that is already stored prints "Book ID
\* already exists. Use update option instead." and register_member with a
\* member id that is already stored prints "Member ID already exists."; each
\* leaves every book (its copies on loan included), every member (fine,
\* block and borrowed_books included), every record and the next issue id
\* as they were.
C14_DuplicateRefused ==
    [][ /\ last'.op = "add_book" =>
            \A b \in DOMAIN books, n \in 1..MaxCopies :
                add_book(b, n) => /\ last'.out = <<BOOK_EXISTS>>
                                  /\ UNCHANGED ledger
        /\ last'.op = "register_member" =>
            \A m \in DOMAIN members :
                register_member(m) => /\ last'.out = <<MEMBER_EXISTS>>
                                      /\ UNCHANGED ledger
      ]_vars

\* a second add_book has been refused while both books had copies on loan
C14_Witness ==
    /\ last = Ran("add_book", <<BOOK_EXISTS>>)
    /\ DOMAIN books = BookIds
    /\ \A b \in DOMAIN books : Issued(books[b]) >= 1

\* a second register_member has been refused while a member owed a fine
\* and held a book
C14_MemberKept ==
    /\ last = Ran("register_member", <<MEMBER_EXISTS>>)
    /\ \E m \in DOMAIN members :
         /\ members[m].outstanding_fine > 0
         /\ members[m].borrowed_books # << >>

\* the records of book b that have no return_date
ActiveOf(b) == {i \in DOMAIN issues : ~Returned(i) /\ issues[i].book_id = b}

C15_Count ==
    \A b \in DOMAIN books : Issued(books[b]) = Cardinality(ActiveOf(b))

C15_UpdateDelta ==
    last'.op = "update_book" =>
        \A b \in DOMAIN books :
            books'[b].available_copies - books[b].available_copies
                = books'[b].total_copies - books[b].total_copies

\* C15: in every reachable state, for every book, total_copies minus
\* available_copies is the number of records without return_date that name
\* the book; and every update_book changes available_copies by the amount
\* it changes total_copies.
C15_IssuedCount == []C15_Count /\ [][C15_UpdateDelta]_vars

\* update_book has taken a total while both books had copies on loan and
\* one of them had a copy left
C15_Witness ==
    /\ last = Ran("update_book", <<BOOK_UPDATED>>)
    /\ DOMAIN books = BookIds
    /\ \A b \in DOMAIN books : Issued(books[b]) >= 1
    /\ \E b \in DOMAIN books : books[b].total_copies > Issued(books[b])

\* list without its k-th element
Without(list, k) == SubSeq(list, 1, k - 1) \o SubSeq(list, k + 1, Len(list))

\* what a return of record i, ending with "Book return recorded.", changes
ReturnEffect(i) ==
    LET r == issues[i]
        b == r.book_id
        m == r.member_id
        fine == issues'[i].fine_charged
    IN  /\ r.return_date = None
        /\ issues'[i].return_date # None
        /\ issues' = [issues EXCEPT ![i] =
                        [r EXCEPT !.return_date = issues'[i].return_date,
                                  !.fine_charged = fine]]
        /\ books' = [books EXCEPT ![b].available_copies = @ + 1]
        /\ \E k \in 1..Len(members[m].borrowed_books) :
             /\ members[m].borrowed_books[k] = b
             /\ members' = [members EXCEPT ![m] =
                  [member_id |-> m,
                   outstanding_fine |-> members[m].outstanding_fine + fine,
                   blocked |-> (members[m].outstanding_fine + fine
                                  >= MAX_FINE_LIMIT),
                   borrowed_books |-> Without(members[m].borrowed_books, k)]]
        /\ next_issue_id' = next_issue_id

\* C16: a return_book that ends with "Book return recorded." changes one
\* record, which had no return_date: it gets the return date and its
\* fine_charged and is otherwise as before.  The record's book has one more
\* available copy and is otherwise as before; the record's member owes
\* fine_charged more, is blocked exactly when the new fine is at least 500,
\* and has one occurrence of the book id less in borrowed_books, the rest in
\* order.  All other books, members and records, and the next issue id, are
\* unchanged.
C16_ReturnEffect ==
    [][(last'.op = "return_book" /\ Head(last'.out) = RETURN_RECORDED)
          => \E i \in DOMAIN issues : ReturnEffect(i)]_vars

\* a late return has been recorded for a member who still holds a book,
\* with another member and another book stored
C16_Witness ==
    /\ last.op = "return_book" /\ Head(last.out) = RETURN_RECORDED
    /\ DOMAIN books = BookIds /\ DOMAIN members = MemberIds
    /\ \E i \in DOMAIN issues :
         /\ Returned(i) /\ issues[i].fine_charged > 0
         /\ members[issues[i].member_id].borrowed_books # << >>

\* how often x occurs in list
Count(list, x) == Cardinality({k \in 1..Len(list) : list[k] = x})

\* the records of book b and member m that have no return_date
ActiveFor(b, m) ==
    {i \in DOMAIN issues :
        ~Returned(i) /\ issues[i].book_id = b /\ issues[i].member_id = m}

\* C17: in every reachable state, for every member m and book id b, b occurs
\* in m.borrowed_books as often as there are records without return_date for
\* b and m.  So a member with two copies of a book out lists the book once
\* after one is returned, and the book id of a record without return_date is
\* always in its member's borrowed_books.
C17_BorrowedMatchesActive ==
    /\ \A m \in DOMAIN members, b \in BookIds :
         Count(members[m].borrowed_books, b) = Cardinality(ActiveFor(b, m))
    /\ \A i \in DOMAIN issues :
         (~Returned(i) /\ issues[i].member_id \in DOMAIN members)
            => contains(members[issues[i].member_id].borrowed_books,
                        issues[i].book_id)

\* a member took two copies of one book, has returned one and lists the
\* book once
C17_Witness ==
    \E m \in DOMAIN members, i, j \in DOMAIN issues :
        /\ issues[i].member_id = m /\ issues[j].member_id = m
        /\ issues[i].book_id = issues[j].book_id
        /\ Returned(i) /\ ~Returned(j)
        /\ members[m].borrowed_books = <<issues[j].book_id>>
        /\ last.op = "return_book"

\* the sum of fine_charged over the records with the given ids
RECURSIVE FinesCharged(_)
FinesCharged(ids) ==
    IF ids = {} THEN 0
    ELSE LET i == CHOOSE x \in ids : TRUE
         IN  issues[i].fine_charged + FinesCharged(ids \ {i})

\* the records of member m that have a return_date
ReturnedBy(m) ==
    {i \in DOMAIN issues : Returned(i) /\ issues[i].member_id = m}

\* C18: in every reachable state every member's outstanding_fine is the sum
\* of fine_charged over the member's records that have a return_date, and
\* fine_charged is 0 on every record without return_date.
C18_FineIsSumOfCharges ==
    /\ \A m \in DOMAIN members :
         members[m].outstanding_fine = FinesCharged(ReturnedBy(m))
    /\ \A i \in DOMAIN issues : ~Returned(i) => issues[i].fine_charged = 0

\* a member has returned one book late and one in time
C18_Witness ==
    \E m \in DOMAIN members, i, j \in DOMAIN issues :
        /\ i # j /\ {i, j} \subseteq ReturnedBy(m)
        /\ issues[i].fine_charged > 0 /\ issues[j].fine_charged = 0
        /\ members[m].outstanding_fine = issues[i].fine_charged

\* C19: in every step no member's outstanding_fine decreases and a blocked
\* member stays blocked; an issue_book for a blocked member does not issue:
\* it prints "Book not found." or "Member is BLOCKED due to high outstanding
\* fines." and stores no record; and a return_book of a record without
\* return_date of a blocked member prints "Book return recorded." and sets
\* the return date.
C19_BlockingIsPermanent ==
    [][\A m \in DOMAIN members :
         /\ m \in DOMAIN members'
         /\ members'[m].outstanding_fine >= members[m].outstanding_fine
         /\ members[m].blocked =>
              /\ members'[m].blocked
              /\ last'.op = "issue_book" =>
                   \A b \in BookIds :
                       issue_book(b, m)
                         => /\ last'.out \in {<<BOOK_NOT_FOUND>>,
                                              <<MEMBER_BLOCKED>>}
                            /\ UNCHANGED ledger
              /\ last'.op = "return_book" =>
                   \A s \in NumberedIds :
                       ( /\ IdTyped[s] \in DOMAIN issues
                         /\ ~Returned(IdTyped[s])
                         /\ issues[IdTyped[s]].member_id = m
                         /\ return_book(s) )
                         => /\ Head(last'.out) = RETURN_RECORDED
                            /\ issues'[IdTyped[s]].return_date # None
      ]_vars

\* the only member was blocked by a late return, then returned a second book
\* late, and a later issue has been refused
C19_Witness ==
    /\ last = Ran("issue_book", <<MEMBER_BLOCKED>>)
    /\ \E m \in MemberIds :
         /\ DOMAIN members = {m}
         /\ members[m].blocked
         /\ members[m].outstanding_fine = 2 * MAX_FINE_LIMIT
         /\ \E b \in DOMAIN books : books[b].available_copies > 0

C20_Resolves ==
    /\ \A i \in DOMAIN issues :
         /\ issues[i].book_id \in DOMAIN books
         /\ issues[i].member_id \in DOMAIN members
    /\ last.out # <<RECORD_MISSING>>

C20_ReturnSucceeds ==
    last'.op = "return_book" =>
        \A s \in NumberedIds :
            ( /\ IdTyped[s] \in DOMAIN issues
              /\ ~Returned(IdTyped[s])
              /\ return_book(s) )
            => /\ Head(last'.out) = RETURN_RECORDED
               /\ issues'[IdTyped[s]].return_date # None

\* C20: in every reachable state the book_id of every record is the id of a
\* stored book and its member_id the id of a stored member, and no step
\* removes a book or a member; "Book or Member record missing. Cannot
\* proceed safely." is never printed; and every return_book of a record
\* without return_date prints "Book return recorded." and sets the return
\* date.
C20_ReferentialIntegrity ==
    /\ []C20_Resolves
    /\ [][/\ DOMAIN books \subseteq DOMAIN books'
          /\ DOMAIN members \subseteq DOMAIN members'
          /\ C20_ReturnSucceeds]_vars

\* a return has been recorded with records of both books and both members
C20_Witness ==
    /\ last.op = "return_book" /\ Head(last.out) = RETURN_RECORDED
    /\ {issues[i].book_id : i \in DOMAIN issues} = BookIds
    /\ {issues[i].member_id : i \in DOMAIN issues} = MemberIds

=============================================================================
